---- MODULE Spec2Model ----
(***************************************************************************)
(* A model of the e-puck driver's numeric core (webots_ros2_epuck2         *)
(* driver.py and webots_ros2_core math_utils.py): the calibration-table    *)
(* lookup, the panoramic scan assembled by distance_callback, and the      *)
(* odometry integrator with its reset on reconfiguration.                  *)
(*                                                                         *)
(* Numbers are exact rationals <<n, d>> in lowest terms with d > 0, so an  *)
(* equality checked here is an equality of real numbers, not of floats.    *)
(***************************************************************************)
EXTENDS Integers, Sequences, FiniteSets, TLC

(* ------------------------------------------------------------------ *)
(* Exact rational arithmetic                                          *)
(* ------------------------------------------------------------------ *)

Abs(n) ==
    IF n < 0 THEN -n ELSE n

RECURSIVE GCD(_, _)
GCD(a, b) ==
    IF b = 0 THEN a ELSE GCD(b, a % b)

(* the element of a singleton; {e(x) : x \in {v}} names the value v once *)
Only(S) ==
    CHOOSE x \in S : TRUE

Rat(n, d) ==
    LET g == GCD(Abs(n), Abs(d))
        s == IF d < 0 THEN -1 ELSE 1
    IN  <<(s * n) \div g, (s * d) \div g>>

Int2Rat(n) ==
    <<n, 1>>

Zero ==
    <<0, 1>>

RAdd(a, b) ==
    LET g == GCD(a[2], b[2])
    IN  Rat(a[1] * (b[2] \div g) + b[1] * (a[2] \div g), (a[2] \div g) * b[2])

RNeg(a) ==
    <<-a[1], a[2]>>

RSub(a, b) ==
    RAdd(a, RNeg(b))

RMul(a, b) ==
    LET g1 == GCD(Abs(a[1]), b[2])
        g2 == GCD(Abs(b[1]), a[2])
    IN  IF a[1] = 0 \/ b[1] = 0 THEN Zero
        ELSE Rat((a[1] \div g1) * (b[1] \div g2), (a[2] \div g2) * (b[2] \div g1))

RDiv(a, b) ==
    RMul(a, Rat(b[2], b[1]))

RLt(a, b) ==
    a[1] * b[2] < b[1] * a[2]

RLe(a, b) ==
    a[1] * b[2] <= b[1] * a[2]

RGt(a, b) ==
    RLt(b, a)

RGe(a, b) ==
    RLe(b, a)

(* ------------------------------------------------------------------ *)
(* Calibration tables: rows <<physical, raw>>, Python index i is row   *)
(* i + 1 of the sequence                                               *)
(* ------------------------------------------------------------------ *)

Phys(t, i) ==
    t[i + 1][1]

Raw(t, i) ==
    t[i + 1][2]

TOF_TABLE ==
    << <<Rat(2, 1), Rat(2000, 1)>>,
       <<Rat(17, 10), Rat(17805, 10)>>,
       <<Rat(1, 1), Rat(1052, 1)>>,
       <<Rat(1, 2), Rat(5319, 10)>>,
       <<Rat(1, 5), Rat(2189, 10)>>,
       <<Rat(1, 10), Rat(111, 1)>>,
       <<Rat(1, 20), Rat(585, 10)>>,
       <<Rat(0, 1), Rat(198, 10)>> >>

DISTANCE_TABLE ==
    << <<Rat(0, 1), Rat(4095, 1)>>,
       <<Rat(5, 1000), Rat(213333, 100)>>,
       <<Rat(1, 100), Rat(146573, 100)>>,
       <<Rat(15, 1000), Rat(60146, 100)>>,
       <<Rat(2, 100), Rat(38384, 100)>>,
       <<Rat(3, 100), Rat(23493, 100)>>,
       <<Rat(4, 100), Rat(15803, 100)>>,
       <<Rat(5, 100), Rat(120, 1)>>,
       <<Rat(6, 100), Rat(10409, 100)>> >>

interpolate_function_from_end(value, startX, startY, endX, endY) ==
    LET slope == RDiv(RSub(endY, startY), RSub(endX, startX))
    IN  RAdd(RMul(slope, RSub(value, endX)), startY)

interpolate_function(value, startX, startY, endX, endY) ==
    LET slope == RDiv(RSub(endY, startY), RSub(endX, startX))
    IN  RAdd(RMul(slope, RSub(value, startX)), startY)

Bracket(value, t, i) ==
    \/ RLt(value, Raw(t, i)) /\ RGe(value, Raw(t, i + 1))
    \/ RGt(value, Raw(t, i)) /\ RLe(value, Raw(t, i + 1))

Segment(value, t, i) ==
    interpolate_function(value, Raw(t, i), Phys(t, i), Raw(t, i + 1), Phys(t, i + 1))

RECURSIVE TableScan(_, _, _)
TableScan(value, t, i) ==
    IF i >= Len(t) - 1 THEN
        IF RGt(value, Raw(t, 0)) THEN Segment(value, t, 0)
        ELSE Segment(value, t, Len(t) - 2)
    ELSE IF Bracket(value, t, i) THEN Segment(value, t, i)
    ELSE TableScan(value, t, i + 1)

interpolate_table_clamped(value, t) ==
    IF \E i \in 0..(Len(t) - 2) : Bracket(value, t, i) THEN TableScan(value, t, 0)
    ELSE IF RGt(value, Raw(t, 0)) THEN Phys(t, 0)
    ELSE Phys(t, Len(t) - 1)

interpolate_table(value, t) ==
    TableScan(value, t, 0)

(* ------------------------------------------------------------------ *)
(* State                                                               *)
(* ------------------------------------------------------------------ *)

VARIABLES
    table, value, ret,
    sensors, tof_sensor, ps_ranges, ranges,
    wheel_radius, wheel_distance, period,
    prev_left_wheel_ticks, prev_right_wheel_ticks, prev_position, prev_angle,
    left_wheel_sensor, right_wheel_sensor,
    odom, rk4, result, fault, nsteps,
    call

tableVars ==
    <<table, value, ret>>

scanVars ==
    <<sensors, tof_sensor, ps_ranges, ranges>>

odomVars ==
    <<wheel_radius, wheel_distance, period, prev_left_wheel_ticks,
      prev_right_wheel_ticks, prev_position, prev_angle, left_wheel_sensor,
      right_wheel_sensor, odom, rk4, result, fault, nsteps>>

vars ==
    <<tableVars, scanVars, odomVars, call>>

NoCall ==
    [name |-> "none", params |-> <<>>]

(* ------------------------------------------------------------------ *)
(* Driver constants                                                    *)
(* ------------------------------------------------------------------ *)

OUT_OF_RANGE ==
    Zero

NB_INFRARED_SENSORS ==
    8

SENSOR_DIST_FROM_CENTER ==
    Rat(35, 1000)

(* wheel_radius and wheel_distance as declared in __init__ *)
InitialWheelRadius ==
    Rat(21, 1000)

InitialWheelDistance ==
    Rat(552, 10000)

(* ------------------------------------------------------------------ *)
(* Bounds                                                              *)
(* ------------------------------------------------------------------ *)

MaxRows ==
    3

MaxRaw ==
    3

MaxPhys ==
    1

MaxSteps ==
    3

MaxParams ==
    1

MaxNear ==
    2

(* ------------------------------------------------------------------ *)
(* Numbers with a square root of two: [a, b] stands for a + b*sqrt(2). *)
(* Angles are counted in quarter turns (pi/2 rad), so that cos and sin *)
(* are exact on every multiple of an eighth of a turn.  Encoder ticks  *)
(* are angles too and are counted in the same unit; the odometry is    *)
(* linear in them outside the arguments of cos and sin, so positions   *)
(* come out in that unit times the length unit.                        *)
(* ------------------------------------------------------------------ *)

Q2(a, b) ==
    [a |-> a, b |-> b]

Q2Zero ==
    Q2(Zero, Zero)

Q2Add(p, q) ==
    Q2(RAdd(p.a, q.a), RAdd(p.b, q.b))

Q2Scale(r, q) ==
    Q2(RMul(r, q.a), RMul(r, q.b))

(* theta, a multiple of 1/2 quarter turn, as a number of eighth turns in 0..7 *)
Eighths(theta) ==
    (theta[1] * (2 \div theta[2])) % 8

OnGrid(theta) ==
    theta[2] \in {1, 2}

CosEighth(e) ==
    CASE e = 0 -> Q2(Int2Rat(1), Zero)
      [] e = 1 -> Q2(Zero, Rat(1, 2))
      [] e = 2 -> Q2Zero
      [] e = 3 -> Q2(Zero, Rat(-1, 2))
      [] e = 4 -> Q2(Int2Rat(-1), Zero)
      [] e = 5 -> Q2(Zero, Rat(-1, 2))
      [] e = 6 -> Q2Zero
      [] e = 7 -> Q2(Zero, Rat(1, 2))

cos(theta) ==
    CosEighth(Eighths(theta))

sin(theta) ==
    CosEighth((Eighths(theta) + 6) % 8)

(* ------------------------------------------------------------------ *)
(* Values of the parts of the state a specification does not drive     *)
(* ------------------------------------------------------------------ *)

TableIdle ==
    /\ table = <<>>
    /\ value = Zero
    /\ ret = Zero

ScanIdle ==
    /\ sensors = [i \in 0..(NB_INFRARED_SENSORS - 1) |-> Zero]
    /\ tof_sensor = Zero
    /\ ps_ranges = [i \in 0..(NB_INFRARED_SENSORS - 1) |-> Zero]
    /\ ranges = <<>>

PeriodValues ==
    {Int2Rat(32), Int2Rat(64)}

(* __init__: the declared geometry, then reset_odometry() *)
OdomInit ==
    /\ wheel_radius = InitialWheelRadius
    /\ wheel_distance = InitialWheelDistance
    /\ period \in PeriodValues
    /\ prev_left_wheel_ticks = Zero
    /\ prev_right_wheel_ticks = Zero
    /\ prev_position = <<Q2Zero, Q2Zero>>
    /\ prev_angle = Zero
    /\ left_wheel_sensor = Zero
    /\ right_wheel_sensor = Zero
    /\ odom = [v |-> Zero, omega |-> Zero, x |-> Q2Zero, y |-> Q2Zero, angle |-> Zero]
    /\ rk4 = <<Zero, Zero, Zero, Zero>>
    /\ result = "none"
    /\ fault = "none"
    /\ nsteps = 0

(* ------------------------------------------------------------------ *)
(* The calibration lookup on its own: any table of MaxRows rows at     *)
(* most with distinct raw values, looked up at any value               *)
(* ------------------------------------------------------------------ *)

Rows ==
    {<<Int2Rat(p), Int2Rat(r)>> : p \in 0..MaxPhys, r \in 0..MaxRaw}

Tables ==
    {t \in UNION {[1..n -> Rows] : n \in 2..MaxRows} :
        \A i, j \in 1..Len(t) : i # j => t[i][2] # t[j][2]}

Values ==
    {Int2Rat(n) : n \in -1..(MaxRaw + 1)}

InitTable ==
    /\ table \in Tables
    /\ value = Zero
    /\ ret = Zero
    /\ call = NoCall
    /\ ScanIdle
    /\ OdomInit
    /\ period = Int2Rat(64)

Lookup ==
    /\ \E x \in Values :
        /\ value' = x
        /\ ret' = interpolate_table(x, table)
    /\ call' = [name |-> "interpolate_table", params |-> <<>>]
    /\ UNCHANGED <<table, scanVars, odomVars>>

NextTable ==
    Lookup

SpecTable ==
    InitTable /\ [][NextTable]_vars

StrictlyDescending(t) ==
    \A i \in 0..(Len(t) - 2) : RGt(Raw(t, i), Raw(t, i + 1))

LookedUp ==
    call.name = "interpolate_table"

(* C1: for a strictly descending table, a lookup at the raw value of any
   row, the first and the last included, returns that row's physical value. *)
KnotReproduced ==
    (LookedUp /\ StrictlyDescending(table)) =>
        \A i \in 0..(Len(table) - 1) :
            value = Raw(table, i) => ret = Phys(table, i)

(* ret lies on the straight line through rows i and i + 1 of the table *)
OnLine(i) ==
    RMul(RSub(ret, Phys(table, i)), RSub(Raw(table, i + 1), Raw(table, i)))
        = RMul(RSub(Phys(table, i + 1), Phys(table, i)), RSub(value, Raw(table, i)))

(* C2: for a strictly descending table, a lookup above the first raw value
   returns the point on the line through rows 0 and 1, and a lookup below the
   last raw value the point on the line through the last two rows; neither is
   clamped. *)
EdgeExtrapolation ==
    (LookedUp /\ StrictlyDescending(table)) =>
        /\ RGt(value, Raw(table, 0)) => OnLine(0)
        /\ RLt(value, Raw(table, Len(table) - 1)) => OnLine(Len(table) - 2)

PhysRange ==
    {Phys(table, i) : i \in 0..(Len(table) - 1)}

OutsidePhysRange ==
    \/ \A p \in PhysRange : RLt(ret, p)
    \/ \A p \in PhysRange : RGt(ret, p)

(* a lookup below the last raw value of a three-row table whose result lies
   outside the table's physical range *)
EdgeWitness ==
    /\ LookedUp
    /\ StrictlyDescending(table)
    /\ Len(table) = 3
    /\ RLt(value, Raw(table, 2))
    /\ OutsidePhysRange

(* C8: for a strictly descending table and a value strictly inside segment
   i, the lookup is physical[i] + (physical[i+1] - physical[i]) *
   (value - raw[i]) / (raw[i+1] - raw[i]). *)
InteriorBlend ==
    (LookedUp /\ StrictlyDescending(table)) =>
        \A i \in 0..(Len(table) - 2) :
            (RLt(Raw(table, i + 1), value) /\ RLt(value, Raw(table, i))) =>
                ret = RAdd(Phys(table, i),
                           RDiv(RMul(RSub(Phys(table, i + 1), Phys(table, i)),
                                     RSub(value, Raw(table, i))),
                                RSub(Raw(table, i + 1), Raw(table, i))))

(* a lookup strictly inside the second segment of a three-row table whose two
   segments have different slopes *)
InteriorWitness ==
    /\ LookedUp
    /\ StrictlyDescending(table)
    /\ Len(table) = 3
    /\ RLt(Raw(table, 2), value) /\ RLt(value, Raw(table, 1))
    /\ Phys(table, 0) = Phys(table, 1)
    /\ Phys(table, 1) # Phys(table, 2)
    /\ ret \notin PhysRange

(* ------------------------------------------------------------------ *)
(* distance_callback: the eight infrared readings and the panoramic    *)
(* scan.  step_callback runs it after odometry_callback; the two share *)
(* no state.                                                           *)
(* ------------------------------------------------------------------ *)

InfraredIndex ==
    0..(NB_INFRARED_SENSORS - 1)

(* raw readings the simulator may return for ps0..ps7 and for tof *)
InfraredSamples ==
    {Rat(3114165, 1000), Rat(120, 1)}

TofSamples ==
    {Rat(2000, 1), Rat(1000, 1), Rat(10, 1)}

(* dists[i], ps_i read through DISTANCE_TABLE *)
dists_of(ps) ==
    Only({[i \in InfraredIndex |-> l[i + 1]] :
            l \in {<<interpolate_table(ps[0], DISTANCE_TABLE),
                     interpolate_table(ps[1], DISTANCE_TABLE),
                     interpolate_table(ps[2], DISTANCE_TABLE),
                     interpolate_table(ps[3], DISTANCE_TABLE),
                     interpolate_table(ps[4], DISTANCE_TABLE),
                     interpolate_table(ps[5], DISTANCE_TABLE),
                     interpolate_table(ps[6], DISTANCE_TABLE),
                     interpolate_table(ps[7], DISTANCE_TABLE)>>}})

(* dist_tof: the sensor read is self.sensors[key], key being left at "ps7"
   by the loop before it; the reading of self.tof_sensor is not used *)
dist_tof_of(ps, tof) ==
    interpolate_table(ps[NB_INFRARED_SENSORS - 1], TOF_TABLE)

RangesList(d, dt, s) ==
    << RAdd(d[3], s), OUT_OF_RANGE, OUT_OF_RANGE, OUT_OF_RANGE,
       RAdd(d[2], s), OUT_OF_RANGE, OUT_OF_RANGE,
       RAdd(d[1], s), OUT_OF_RANGE,
       RAdd(d[0], s),
       RAdd(dt, s),
       RAdd(d[7], s), OUT_OF_RANGE,
       RAdd(d[6], s), OUT_OF_RANGE, OUT_OF_RANGE,
       RAdd(d[5], s), OUT_OF_RANGE, OUT_OF_RANGE, OUT_OF_RANGE,
       RAdd(d[4], s) >>

scan_ranges_mirrored(d, dt) ==
    Only({[i \in 0..20 |-> l[21 - i]] : l \in {RangesList(d, dt, SENSOR_DIST_FROM_CENTER)}})

(* msg.ranges, indexed from 0 as in the source *)
scan_ranges(d, dt) ==
    Only({[i \in 0..20 |-> l[i + 1]] : l \in {RangesList(d, dt, SENSOR_DIST_FROM_CENTER)}})

(* the readings of ps0..ps7 in one step: at most MaxNear of them see an
   obstacle nearby, the others read the far sample *)
FarSample ==
    Rat(120, 1)

InfraredReadings ==
    {ps \in [InfraredIndex -> InfraredSamples] :
        Cardinality({i \in InfraredIndex : ps[i] # FarSample}) <= MaxNear}

distance_callback ==
    /\ \E ps \in InfraredReadings, tof \in TofSamples :
        \E dists \in {dists_of(ps)}, dist_tof \in {dist_tof_of(ps, tof)} :
            /\ sensors' = ps
            /\ tof_sensor' = tof
            /\ ps_ranges' = dists
            /\ ranges' = scan_ranges(dists, dist_tof)
    /\ call' = [name |-> "distance_callback", params |-> <<>>]
    /\ UNCHANGED <<tableVars, odomVars>>

InitScan ==
    /\ TableIdle
    /\ ScanIdle
    /\ OdomInit
    /\ period = Int2Rat(64)
    /\ call = NoCall

NextScan ==
    distance_callback

SpecScan ==
    InitScan /\ [][NextScan]_vars

Scanned ==
    call.name = "distance_callback"

(* the bin of the scan that the source gives to ps_i, at position i + 1 *)
InfraredBin ==
    <<9, 7, 4, 0, 20, 16, 13, 11>>

InfraredBins ==
    {InfraredBin[i + 1] : i \in InfraredIndex}

CentreBin ==
    10

InfraredPlaced ==
    \A i \in InfraredIndex :
        ranges[InfraredBin[i + 1]] = RAdd(ps_ranges[i], SENSOR_DIST_FROM_CENTER)

CentreBinFromTof ==
    Scanned =>
        ranges[CentreBin] =
            RAdd(interpolate_table(tof_sensor, TOF_TABLE), SENSOR_DIST_FROM_CENTER)

(* ------------------------------------------------------------------ *)
(* Odometry: odometry_callback, preceded in step_callback by the       *)
(* robot.step() that refreshes the wheel sensors, and on_param_changed *)
(* ------------------------------------------------------------------ *)

(* wheel sensor readings, in quarter turns; their multiples of 184 keep
   every heading the model reaches on a multiple of a quarter turn for the
   wheel geometries below *)
TickValues ==
    {Int2Rat(0), Int2Rat(184)}

encoder_period_s ==
    RDiv(period, Int2Rat(1000))

(* v and omega of lines 255-262 for the readings l and r *)
twist_of(l, r) ==
    LET v_left_rad == RDiv(RSub(l, prev_left_wheel_ticks), encoder_period_s)
        v_right_rad == RDiv(RSub(r, prev_right_wheel_ticks), encoder_period_s)
        v_left == RMul(v_left_rad, wheel_radius)
        v_right == RMul(v_right_rad, wheel_radius)
    IN  [v |-> RDiv(RAdd(v_left, v_right), Int2Rat(2)),
         omega |-> RDiv(RSub(v_right, v_left), wheel_distance)]

(* the headings at which the four stages take cos and sin *)
rk4_headings(theta, dt, k02, k12, k22) ==
    << theta,
       RAdd(theta, RDiv(RMul(dt, k02), Int2Rat(2))),
       RAdd(theta, RDiv(RMul(dt, k12), Int2Rat(2))),
       RAdd(theta, RDiv(RMul(dt, k22), Int2Rat(2))) >>

(* one coordinate: prev + (dt / 6) * (k0 + 2 * (k1 + k2) + k3) *)
rk4_sum(prev, dt, k0, k1, k2, k3) ==
    Q2Add(prev, Q2Scale(RDiv(dt, Int2Rat(6)),
                        Q2Add(Q2Add(k0, Q2Scale(Int2Rat(2), Q2Add(k1, k2))), k3)))

rk4_position(pos, dt, v, h) ==
    << rk4_sum(pos[1], dt, Q2Scale(v, cos(h[1])), Q2Scale(v, cos(h[2])),
               Q2Scale(v, cos(h[3])), Q2Scale(v, cos(h[4]))),
       rk4_sum(pos[2], dt, Q2Scale(v, sin(h[1])), Q2Scale(v, sin(h[2])),
               Q2Scale(v, sin(h[3])), Q2Scale(v, sin(h[4]))) >>

rk4_angle_unweighted(theta, dt, k02, k12, k22, k32) ==
    RAdd(theta, RMul(RDiv(dt, Int2Rat(6)), RAdd(RAdd(k02, RAdd(k12, k22)), k32)))

rk4_angle(theta, dt, k02, k12, k22, k32) ==
    RAdd(theta, RMul(RDiv(dt, Int2Rat(6)),
                     RAdd(RAdd(k02, RMul(Int2Rat(2), RAdd(k12, k22))), k32)))

OdometryCall ==
    [name |-> "odometry_callback", params |-> <<>>]

odometry_callback ==
    /\ fault = "none"
    /\ nsteps < MaxSteps
    /\ \E l \in TickValues, r \in TickValues :
        /\ left_wheel_sensor' = l
        /\ right_wheel_sensor' = r
        /\ IF encoder_period_s = Zero \/ wheel_distance = Zero
           THEN /\ fault' = "ZeroDivisionError"
                /\ UNCHANGED <<prev_left_wheel_ticks, prev_right_wheel_ticks,
                               prev_position, prev_angle, odom, rk4>>
           ELSE \E tw \in {twist_of(l, r)} :
                \E h \in {rk4_headings(prev_angle, encoder_period_s,
                                       tw.omega, tw.omega, tw.omega)} :
                \E position \in {rk4_position(prev_position, encoder_period_s, tw.v, h)},
                   angle \in {rk4_angle(prev_angle, encoder_period_s,
                                        tw.omega, tw.omega, tw.omega, tw.omega)} :
                    /\ prev_position' = position
                    /\ prev_angle' = angle
                    /\ prev_left_wheel_ticks' = l
                    /\ prev_right_wheel_ticks' = r
                    /\ rk4' = h
                    /\ odom' = [v |-> tw.v, omega |-> tw.omega,
                                x |-> position[1], y |-> position[2], angle |-> angle]
                    /\ fault' = "none"
    /\ nsteps' = nsteps + 1
    /\ call' = OdometryCall
    /\ UNCHANGED <<wheel_radius, wheel_distance, period, result, tableVars, scanVars>>

(* the fields on_param_changed may write *)
Geometry ==
    [wheel_radius |-> wheel_radius,
     wheel_distance |-> wheel_distance,
     prev_left_wheel_ticks |-> prev_left_wheel_ticks,
     prev_right_wheel_ticks |-> prev_right_wheel_ticks,
     prev_position |-> prev_position,
     prev_angle |-> prev_angle]

reset_odometry_keeps_angle(s) ==
    [s EXCEPT !.prev_left_wheel_ticks = Zero,
              !.prev_right_wheel_ticks = Zero,
              !.prev_position = <<Q2Zero, Q2Zero>>]

reset_odometry(s) ==
    [s EXCEPT !.prev_left_wheel_ticks = Zero,
              !.prev_right_wheel_ticks = Zero,
              !.prev_position = <<Q2Zero, Q2Zero>>,
              !.prev_angle = Zero]

apply_param(s, param) ==
    IF param.name = "wheel_radius"
    THEN [reset_odometry(s) EXCEPT !.wheel_radius = param.value]
    ELSE IF param.name = "wheel_distance"
    THEN [reset_odometry(s) EXCEPT !.wheel_distance = param.value]
    ELSE s

RECURSIVE apply_params(_, _, _)
apply_params(s, params, i) ==
    IF i > Len(params) THEN s
    ELSE apply_params(apply_param(s, params[i]), params, i + 1)

(* the parameters a caller may set, among them a zero and a negative track
   width and a parameter the callback does not know *)
Params ==
    {[name |-> "wheel_radius", value |-> RMul(Int2Rat(2), InitialWheelRadius)]}
    \cup {[name |-> "wheel_distance", value |-> d] :
            d \in {RMul(Int2Rat(2), InitialWheelDistance), Zero, RNeg(InitialWheelDistance)}}
    \cup {[name |-> "camera_period", value |-> Int2Rat(64)]}

ParamLists ==
    UNION {[1..n -> Params] : n \in 0..MaxParams}

on_param_changed ==
    /\ fault = "none"
    /\ \E params \in ParamLists :
        /\ \E s \in {apply_params(Geometry, params, 1)} :
            /\ wheel_radius' = s.wheel_radius
            /\ wheel_distance' = s.wheel_distance
            /\ prev_left_wheel_ticks' = s.prev_left_wheel_ticks
            /\ prev_right_wheel_ticks' = s.prev_right_wheel_ticks
            /\ prev_position' = s.prev_position
            /\ prev_angle' = s.prev_angle
        /\ call' = [name |-> "on_param_changed", params |-> params]
    /\ result' = "successful"
    /\ UNCHANGED <<period, left_wheel_sensor, right_wheel_sensor, odom, rk4, fault,
                   nsteps, tableVars, scanVars>>

Init ==
    /\ TableIdle
    /\ ScanIdle
    /\ OdomInit
    /\ call = NoCall

Next ==
    \/ odometry_callback
    \/ on_param_changed

Spec ==
    Init /\ [][Next]_vars

(* every heading the model takes cos or sin of is a multiple of an eighth
   of a turn, where CosEighth is exact *)
HeadingsOnGrid ==
    /\ OnGrid(prev_angle)
    /\ \A i \in 1..4 : OnGrid(rk4[i])

Origin ==
    <<Q2Zero, Q2Zero>>

(* a step of odometry_callback that ran to its end *)
StepCompleted ==
    /\ call' = OdometryCall
    /\ nsteps' = nsteps + 1
    /\ fault' = "none"

(* the pose after one step of the integrator of section 4.3, whose fourth
   stage is taken at the full step *)
FullStepHeadings(theta, dt, omega) ==
    << theta,
       RAdd(theta, RDiv(RMul(dt, omega), Int2Rat(2))),
       RAdd(theta, RDiv(RMul(dt, omega), Int2Rat(2))),
       RAdd(theta, RMul(dt, omega)) >>

SixthOf(dt, k1, k2, k3, k4) ==
    Q2Scale(RDiv(dt, Int2Rat(6)),
            Q2Add(Q2Add(k1, Q2Scale(Int2Rat(2), k2)), Q2Add(Q2Scale(Int2Rat(2), k3), k4)))

FullStepPosition(pos, dt, v, h) ==
    << Q2Add(pos[1], SixthOf(dt, Q2Scale(v, cos(h[1])), Q2Scale(v, cos(h[2])),
                             Q2Scale(v, cos(h[3])), Q2Scale(v, cos(h[4])))),
       Q2Add(pos[2], SixthOf(dt, Q2Scale(v, sin(h[1])), Q2Scale(v, sin(h[2])),
                             Q2Scale(v, sin(h[3])), Q2Scale(v, sin(h[4])))) >>

(* C3: a step takes cos and sin at theta0, theta0 + dt*omega/2, theta0 +
   dt*omega/2 and theta0 + dt*omega, and the new pose is pose0 + (dt/6) *
   (k1 + 2*k2 + 2*k3 + k4) in x, y and theta. *)
RungeKuttaFullStep ==
    [][StepCompleted =>
        LET dt == encoder_period_s
            h == FullStepHeadings(prev_angle, dt, odom'.omega)
        IN  /\ rk4' = h
            /\ prev_position' = FullStepPosition(prev_position, dt, odom'.v, h)
            /\ prev_angle' = RAdd(prev_angle, RMul(dt, odom'.omega))]_vars

GeometryNames ==
    {"wheel_radius", "wheel_distance"}

NamesGeometry(params) ==
    \E i \in 1..Len(params) : params[i].name \in GeometryNames

(* C4: when the wheel encoders read the same after a reconfiguration of
   wheel_radius or wheel_distance as before it, the next step reports zero
   linear and angular velocity and leaves the pose at (0, 0, 0). *)
NoBlendAfterReconfiguration ==
    [][(/\ call.name = "on_param_changed"
        /\ NamesGeometry(call.params)
        /\ StepCompleted
        /\ left_wheel_sensor' = left_wheel_sensor
        /\ right_wheel_sensor' = right_wheel_sensor)
       => /\ odom'.v = Zero
          /\ odom'.omega = Zero
          /\ prev_position' = Origin
          /\ prev_angle' = Zero]_vars

Named(params, n) ==
    \E i \in 1..Len(params) : params[i].name = n

(* the value of the last parameter of the list that names n *)
LastValue(params, n) ==
    LET last == CHOOSE i \in 1..Len(params) :
                    /\ params[i].name = n
                    /\ \A j \in (i + 1)..Len(params) : params[j].name # n
    IN  params[last].value

(* C5: a parameter change that names wheel_radius or wheel_distance leaves
   position (0, 0), heading 0, both previous ticks 0 and the named parameter
   at its new value; one that names neither leaves pose, previous ticks and
   geometry as they were. *)
ReconfigurationResets ==
    [][call'.name = "on_param_changed" =>
        IF NamesGeometry(call'.params)
        THEN /\ prev_position' = Origin
             /\ prev_angle' = Zero
             /\ prev_left_wheel_ticks' = Zero
             /\ prev_right_wheel_ticks' = Zero
             /\ wheel_radius' = IF Named(call'.params, "wheel_radius")
                                THEN LastValue(call'.params, "wheel_radius")
                                ELSE wheel_radius
             /\ wheel_distance' = IF Named(call'.params, "wheel_distance")
                                  THEN LastValue(call'.params, "wheel_distance")
                                  ELSE wheel_distance
        ELSE UNCHANGED <<prev_position, prev_angle, prev_left_wheel_ticks,
                         prev_right_wheel_ticks, wheel_radius, wheel_distance>>]_vars

(* a reconfiguration of wheel_radius right after two steps that left the
   wheels turned by different amounts *)
ResetWitness ==
    /\ call.name = "on_param_changed"
    /\ Named(call.params, "wheel_radius")
    /\ nsteps = 2
    /\ left_wheel_sensor # right_wheel_sensor
    /\ odom.angle # Zero
    /\ prev_angle = Zero
    /\ prev_position = Origin
    /\ wheel_radius # InitialWheelRadius

(* C7: a reconfiguration to a wheel_distance of 0 or less is answered as
   unsuccessful, wheel_distance is positive in every state, and no step
   divides by zero. *)
ConfigurationErrorsRejected ==
    /\ (/\ call.name = "on_param_changed"
        /\ \E i \in 1..Len(call.params) :
            /\ call.params[i].name = "wheel_distance"
            /\ RLe(call.params[i].value, Zero))
       => result = "unsuccessful"
    /\ RGt(wheel_distance, Zero)
    /\ fault # "ZeroDivisionError"

(* C9: the heading is wheel_radius * (prev_right_wheel_ticks -
   prev_left_wheel_ticks) / wheel_distance in every state, whatever the
   period and the steps and reconfigurations that led to it; where
   wheel_distance is 0 the quotient does not exist and the equality is the
   one multiplied through. *)
HeadingTracksTicks ==
    LET turned == RMul(wheel_radius, RSub(prev_right_wheel_ticks, prev_left_wheel_ticks))
    IN  /\ RMul(prev_angle, wheel_distance) = turned
        /\ wheel_distance # Zero => prev_angle = RDiv(turned, wheel_distance)

(* three steps with a reconfiguration of wheel_radius among them, ending on
   a heading that is not 0 *)
HeadingWitness ==
    /\ call = OdometryCall
    /\ fault = "none"
    /\ nsteps = 3
    /\ wheel_radius # InitialWheelRadius
    /\ prev_angle # Zero
    /\ prev_left_wheel_ticks # Zero

====
